---- MODULE Spec2Model ----
(***************************************************************************)
(* Chess clock sketch (chess_clock.ino).  The file holds two variants of   *)
(* the same sketch: lines 1-268 (LCD only) and lines 269-580 (LCD + two    *)
(* turn LEDs + start/pause beeps).  The turn/time logic of the two is      *)
(* line-for-line the same; the model follows the LED variant, which is a   *)
(* superset, and keeps the source's names.                                 *)
(*                                                                         *)
(* Time is the hardware millisecond counter `millis`.  Blocking delay()    *)
(* calls advance it by their argument; the time one pass of loop() spends  *)
(* in LCD writes and buzzer bursts is an input drawn from Steps.           *)
(***************************************************************************)
EXTENDS Integers, Naturals, FiniteSets, Sequences, TLC

\* ---------------------------------------------------------------- bounds
MaxMillis == 272000      \* horizon of the hardware counter
MaxPresses == 5          \* accepted button presses explored in one run
MaxPolls == 4            \* polls of the restart wait loop before the press
FineBelow == 8000        \* one-second passes are explored below this remaining time
ShortStep == 1000
LongStep == 28000

\* ------------------------------------------------------ program constants
NUM_OPTIONS == 4
TIME_OPTIONS == <<120, 600, 1800, 3600>>
DEFAULT_OPTION == 1
MS_PER_SECOND == 1000
DEBOUNCE_MS == 200
POLL_MS == 50
SETUP_DELAY_MS == 2000
ONE_MINUTE_MS == 60000
THIRTY_SECONDS_MS == 30000
FINAL_MS == 5000
BEEP_GAP_MS == 1000
INT_MAX == 2147483647

VARIABLES
    currentTimeOption,      \* index into TIME_OPTIONS, 0-based as in the source
    blackTime, whiteTime,   \* remaining milliseconds
    lastUpdateTime,
    isWhiteTurn, isRunning, isSetup,
    wasSetup, hasOneMinuteWarning, hasThirtySecondWarning,
    lastFinalSecondBeep,    \* statics of loop()
    lastTurn,               \* static of handleGame()
    wLed, bLed,             \* W_LED_PIN / B_LED_PIN output levels
    lcdWinner,              \* second LCD line written by gameOver()
    millis,                 \* hardware millisecond counter
    pc,                     \* position of the control loop
    wButton, bButton, controlButton,   \* line levels at the latest poll (TRUE = LOW = pressed)
    \* history variables, read by the properties only
    confirmed,              \* the last step was a handleSetup() that took the control branch
    restarted,              \* a gameOver() has returned at least once
    runStart,               \* millis() at the latest Paused -> Running toggle
    segStart, segRemaining, \* start of the current uninterrupted turn segment, and the active clock then
    oneMinuteBeeps, thirtySecondBeeps,  \* warning beeps played since the last confirm
    finalBeeps,             \* whole seconds for which the final beep played since the last confirm
    finalRepeat,            \* a final beep played for a whole second already in finalBeeps
    presses,                \* accepted button presses so far
    rearmed,                \* per line: since its last accepted press the line was read HIGH
                            \* or DEBOUNCE_MS went by
    bounced,                \* the latest step accepted a press on a line that was not rearmed
    repeated                \* the latest step was a running debit with elapsed = 0

vars == <<currentTimeOption, blackTime, whiteTime, lastUpdateTime,
          isWhiteTurn, isRunning, isSetup, wasSetup, hasOneMinuteWarning,
          hasThirtySecondWarning, lastFinalSecondBeep, lastTurn, wLed, bLed,
          lcdWinner, millis, pc, wButton, bButton, controlButton,
          confirmed, restarted, runStart, segStart, segRemaining,
          oneMinuteBeeps, thirtySecondBeeps, finalBeeps, finalRepeat,
          presses, rearmed, bounced, repeated>>

\* ------------------------------------------------------------- arithmetic
\* `int` result of a product: wraps into INT_MIN .. INT_MAX (two's complement).
RECURSIVE WrapInt(_)
WrapInt(x) ==
    IF x > INT_MAX THEN WrapInt(((x - INT_MAX) - INT_MAX) - 2)
    ELSE IF x < (0 - INT_MAX) - 1 THEN WrapInt(((x + INT_MAX) + INT_MAX) + 2)
    ELSE x

\* Variant: the product is kept in 16 bits.
OptionMillis16(i) == (TIME_OPTIONS[i + 1] * MS_PER_SECOND) % 65536

\* TIME_OPTIONS[currentTimeOption] * 1000: an int product, then stored in an
\* unsigned long (the value is kept when it is not negative).
OptionMillis(i) == WrapInt(TIME_OPTIONS[i + 1] * MS_PER_SECOND)

\* unsigned long subtraction a - b; millis() stays far below 2^32 within
\* MaxMillis and every stored timestamp is an earlier millis().
USub(a, b) == a - b

\* Variant: the subtraction without the clamp; the unsigned result wraps.
DebitWrap(t, elapsed) ==
    IF elapsed > t THEN (INT_MAX - (elapsed - t)) + 1 ELSE t - elapsed

\* (elapsed >= t) ? 0 : t - elapsed
Debit(t, elapsed) == IF elapsed >= t THEN 0 ELSE t - elapsed

\* ceil(t / 1000): the whole second a remaining time of t ms counts as
SecondsLeft(t) == (t + (MS_PER_SECOND - 1)) \div MS_PER_SECOND

ActiveTime == IF isWhiteTurn THEN whiteTime ELSE blackTime

\* Time one pass of loop() may take: nothing, or a long stretch standing for
\* a run of passes without input; one-second passes while the running
\* clock is in its last seconds.
Steps ==
    {0, LongStep} \cup
    (IF ~isSetup /\ isRunning /\ ActiveTime <= FineBelow THEN {ShortStep} ELSE {})

Count(pressed) == IF pressed THEN 1 ELSE 0

\* A line is rearmed at a poll made `waited` ms after the previous step if it
\* was rearmed then or the wait covers the refractory interval.
ArmedAt(flag, waited) == flag \/ waited >= DEBOUNCE_MS

\* After a poll: a HIGH reading rearms the line; an accepted press rearms it
\* only through the delay that follows it.
ArmedAfter(pressed, delayAfter) == ~pressed \/ delayAfter >= DEBOUNCE_MS

\* ------------------------------------------------------------ pure helpers
\* resetTimes(): both clocks get the selected option, in milliseconds
ResetClock(option) == OptionMillis(option)

\* Variant: the index stops at the last option instead of wrapping.
NextOptionClamped(option) ==
    IF option = NUM_OPTIONS - 1 THEN option ELSE option + 1

\* handleSetup(): B_BUTTON advances the option, W_BUTTON retreats it
NextOption(option) == (option + 1) % NUM_OPTIONS
PrevOption(option) == ((option - 1) + NUM_OPTIONS) % NUM_OPTIONS

\* Variant: the statics are left as they are.
WarningResetKept(one, thirty, last) == <<one, thirty, last>>

\* loop(): the warning statics are cleared on every pass made in setup mode
WarningReset(one, thirty, last) == <<FALSE, FALSE, 0>>

\* Variant: the control press does not refresh lastUpdateTime.
ToggleStampStale(now, last) == last

\* handleGame(): lastUpdateTime = millis() on every control press
ToggleStamp(now, last) == now

\* Variant: lastUpdateTime is not moved after the debit.
AdvanceStampStale(now, last) == last

\* handleGame(): lastUpdateTime = currentTime after the debit
AdvanceStamp(now, last) == now

\* Variant: white's clock is debited whoever is to move.
DebitedWhiteAlways(turn, t, elapsed) == Debit(t, elapsed)

\* handleGame(): only the clock selected by isWhiteTurn is debited
DebitedWhite(turn, t, elapsed) == IF turn THEN Debit(t, elapsed) ELSE t
\* Variant: black's clock is never debited.
DebitedBlackNever(turn, t, elapsed) == t

\* Variant: black's clock is debited whoever is to move.
DebitedBlackAlways(turn, t, elapsed) == Debit(t, elapsed)
DebitedBlack(turn, t, elapsed) == IF turn THEN t ELSE Debit(t, elapsed)

\* Variant: the buttons are swapped (the waiting player's button switches).
NextTurnSwapped(turn, w, b) ==
    IF turn /\ b THEN FALSE
    ELSE IF ~turn /\ w THEN TRUE
    ELSE turn

\* handleGame(): "Handle player switches".  w, b: W_BUTTON / B_BUTTON are LOW.
NextTurn(turn, w, b) ==
    IF turn /\ w THEN FALSE
    ELSE IF ~turn /\ b THEN TRUE
    ELSE turn

\* Variant: the switch block is not inside `if (isRunning)`.
TurnAfterPassUngated(running, turn, w, b) == NextTurn(turn, w, b)

\* handleGame(): the switch block runs only inside `if (isRunning)`
TurnAfterPass(running, turn, w, b) ==
    IF running THEN NextTurn(turn, w, b) ELSE turn

\* Variant: gameOver() does not clear isRunning.
RunningAfterCheckKept(over, running) == running

\* handleGame() end check: gameOver() starts with isRunning = false
RunningAfterCheck(over, running) == IF over THEN FALSE ELSE running

\* Variant: every pass costs at least one millisecond.
ElapsedAtLeastOne(now, last) == IF now = last THEN 1 ELSE now - last

\* handleGame(): elapsed = currentTime - lastUpdateTime
Elapsed(now, last) == USub(now, last)

\* Variant: the two messages are exchanged.
WinnerSwapped(white, black) == IF white = 0 THEN "White" ELSE "Black"

\* gameOver(): the message on the second LCD line
Winner(white, black) == IF white = 0 THEN "Black" ELSE "White"

\* Variant: the one-shot flag is not consulted.
OneMinuteDueAlways(t, has) == t <= ONE_MINUTE_MS

\* loop(): one-shot warning conditions
OneMinuteDue(t, has) == t <= ONE_MINUTE_MS /\ ~has
ThirtySecondsDue(t, has) == t <= THIRTY_SECONDS_MS /\ ~has

\* loop(): condition of one pass of the final-seconds for loop
FinalDue(t, i, now, last) == t <= i * MS_PER_SECOND /\ USub(now, last) >= BEEP_GAP_MS

\* loop(): for (i = 5; i > 0; i--) ...; yields <<lastFinalSecondBeep, beeps played>>
RECURSIVE FinalLoop(_, _, _, _, _)
FinalLoop(i, t, now, last, played) ==
    IF i = 0 THEN <<last, played>>
    ELSE IF FinalDue(t, i, now, last)
         THEN FinalLoop(i - 1, t, now, now, played + 1)
         ELSE FinalLoop(i - 1, t, now, last, played)

FinalBeeps(t, now, last) ==
    IF t <= FINAL_MS THEN FinalLoop(5, t, now, last, 0) ELSE <<last, 0>>

\* ------------------------------------------------------------------- Init
\* State when setup() returns: the globals' initialisers, resetTimes() run
\* at millis() = 0, then delay(2000); LED variant: white LED on, black off.
Init ==
    /\ currentTimeOption = DEFAULT_OPTION
    /\ blackTime = ResetClock(DEFAULT_OPTION)
    /\ whiteTime = ResetClock(DEFAULT_OPTION)
    /\ lastUpdateTime = 0
    /\ isWhiteTurn = TRUE
    /\ isRunning = FALSE
    /\ isSetup = TRUE
    /\ wasSetup = TRUE
    /\ hasOneMinuteWarning = FALSE
    /\ hasThirtySecondWarning = FALSE
    /\ lastFinalSecondBeep = 0
    /\ lastTurn = TRUE
    /\ wLed = TRUE
    /\ bLed = FALSE
    /\ lcdWinner = "none"
    /\ millis = SETUP_DELAY_MS
    /\ pc = "loop"
    /\ wButton = FALSE
    /\ bButton = FALSE
    /\ controlButton = FALSE
    /\ confirmed = FALSE
    /\ restarted = FALSE
    /\ runStart = 0
    /\ segStart = 0
    /\ segRemaining = 0
    /\ oneMinuteBeeps = 0
    /\ thirtySecondBeeps = 0
    /\ finalBeeps = {}
    /\ finalRepeat = FALSE
    /\ presses = 0
    /\ rearmed = [W |-> TRUE, B |-> TRUE, C |-> TRUE]
    /\ bounced = FALSE
    /\ repeated = FALSE

\* ---------------------------------------------------------------- actions
\* One pass of loop() in setup mode: handleSetup(), then the warning reset,
\* then wasSetup = isSetup.  d: time spent since the previous pass;
\* b, w, c: the levels the three digitalRead calls return.
LoopSetup(d, b, w, c) ==
    LET t0 == millis + d
        opt1 == IF b THEN NextOption(currentTimeOption) ELSE currentTimeOption
        t1 == IF b THEN t0 + DEBOUNCE_MS ELSE t0
        opt2 == IF w THEN PrevOption(opt1) ELSE opt1
        t2 == IF w THEN t1 + DEBOUNCE_MS ELSE t1
        t3 == IF c THEN t2 + DEBOUNCE_MS ELSE t2
        cleared == WarningReset(hasOneMinuteWarning, hasThirtySecondWarning,
                                lastFinalSecondBeep)
    IN  /\ pc = "loop"
        /\ isSetup
        /\ t3 <= MaxMillis
        /\ presses + Count(b) + Count(w) + Count(c) <= MaxPresses
        /\ presses' = presses + Count(b) + Count(w) + Count(c)
        /\ currentTimeOption' = opt2
        /\ bButton' = b
        /\ wButton' = w
        /\ controlButton' = c
        /\ isSetup' = ~c
        /\ blackTime' = IF c THEN ResetClock(opt2) ELSE blackTime
        /\ whiteTime' = IF c THEN ResetClock(opt2) ELSE whiteTime
        /\ lastUpdateTime' = IF c THEN t2 ELSE lastUpdateTime
        /\ millis' = t3
        /\ hasOneMinuteWarning' = cleared[1]
        /\ hasThirtySecondWarning' = cleared[2]
        /\ lastFinalSecondBeep' = cleared[3]
        /\ wasSetup' = isSetup'
        /\ confirmed' = c
        /\ oneMinuteBeeps' = IF c THEN 0 ELSE oneMinuteBeeps
        /\ thirtySecondBeeps' = IF c THEN 0 ELSE thirtySecondBeeps
        /\ finalBeeps' = IF c THEN {} ELSE finalBeeps
        /\ finalRepeat' = IF c THEN FALSE ELSE finalRepeat
        /\ bounced' = \/ (b /\ ~ArmedAt(rearmed.B, t0 - millis))
                       \/ (w /\ ~ArmedAt(rearmed.W, t1 - millis))
                       \/ (c /\ ~ArmedAt(rearmed.C, t2 - millis))
        /\ rearmed' = [B |-> ArmedAfter(b, t3 - t0),
                       W |-> ArmedAfter(w, t3 - t1),
                       C |-> ArmedAfter(c, t3 - t2)]
        /\ repeated' = FALSE
        /\ UNCHANGED <<isWhiteTurn, isRunning, lastTurn, wLed, bLed, lcdWinner,
                       pc, restarted, runStart, segStart, segRemaining>>

\* loop() in game mode, up to the control-button block of handleGame().
\* (The start beep guarded by wasSetup && !isSetup produces sound only.)
\* d: time spent since the previous pass; c: CONTROL_BUTTON is LOW.
GameControl(d, c) ==
    LET now == millis + d
        starts == c /\ ~isRunning
    IN  /\ pc = "loop"
        /\ ~isSetup
        /\ (IF c THEN now + DEBOUNCE_MS ELSE now) <= MaxMillis
        /\ presses + Count(c) <= MaxPresses
        /\ presses' = presses + Count(c)
        /\ controlButton' = c
        /\ wButton' = FALSE
        /\ bButton' = FALSE
        /\ isRunning' = IF c THEN ~isRunning ELSE isRunning
        /\ lastUpdateTime' = IF c THEN ToggleStamp(now, lastUpdateTime)
                                  ELSE lastUpdateTime
        /\ millis' = IF c THEN now + DEBOUNCE_MS ELSE now
        /\ pc' = "advance"
        /\ confirmed' = FALSE
        /\ runStart' = IF starts THEN now ELSE runStart
        /\ segStart' = IF starts THEN now ELSE segStart
        /\ segRemaining' = IF starts THEN ActiveTime ELSE segRemaining
        /\ bounced' = (c /\ ~ArmedAt(rearmed.C, d))
        /\ rearmed' = [B |-> ArmedAt(rearmed.B, millis' - millis),
                       W |-> ArmedAt(rearmed.W, millis' - millis),
                       C |-> ArmedAfter(c, millis' - now)]
        /\ repeated' = FALSE
        /\ UNCHANGED <<currentTimeOption, blackTime, whiteTime, isWhiteTurn,
                       isSetup, wasSetup, hasOneMinuteWarning,
                       hasThirtySecondWarning, lastFinalSecondBeep, lastTurn,
                       wLed, bLed, lcdWinner, restarted,
                       oneMinuteBeeps, thirtySecondBeeps, finalBeeps,
                       finalRepeat>>

\* handleGame() from `if (isRunning)` to its end: debit, player switch, LED
\* update, end check; gameOver() up to its wait loop when a clock is 0.
\* w, b: the W_BUTTON / B_BUTTON lines are LOW at this moment.
GameAdvance(w, b) ==
    LET now == millis
        elapsed == Elapsed(now, lastUpdateTime)
        white1 == IF isRunning THEN DebitedWhite(isWhiteTurn, whiteTime, elapsed)
                  ELSE whiteTime
        black1 == IF isRunning THEN DebitedBlack(isWhiteTurn, blackTime, elapsed)
                  ELSE blackTime
        turn1 == TurnAfterPass(isRunning, isWhiteTurn, w, b)
        switched == turn1 # isWhiteTurn
        redraw == turn1 # lastTurn
        over == white1 = 0 \/ black1 = 0
    IN  /\ pc = "advance"
        /\ (IF switched THEN now + DEBOUNCE_MS ELSE now) <= MaxMillis
        /\ presses + Count(switched) <= MaxPresses
        /\ presses' = presses + Count(switched)
        /\ controlButton' = FALSE
        /\ wButton' = w
        /\ bButton' = b
        /\ whiteTime' = white1
        /\ blackTime' = black1
        /\ lastUpdateTime' = IF isRunning THEN AdvanceStamp(now, lastUpdateTime)
                                  ELSE lastUpdateTime
        /\ isWhiteTurn' = turn1
        /\ millis' = IF switched THEN now + DEBOUNCE_MS ELSE now
        /\ lastTurn' = turn1
        /\ wLed' = IF over THEN FALSE ELSE IF redraw THEN turn1 ELSE wLed
        /\ bLed' = IF over THEN FALSE ELSE IF redraw THEN ~turn1 ELSE bLed
        /\ isRunning' = RunningAfterCheck(over, isRunning)
        /\ lcdWinner' = IF over THEN Winner(white1, black1) ELSE lcdWinner
        /\ pc' = IF over THEN "gameOver" ELSE "warn"
        /\ confirmed' = FALSE
        /\ segStart' = IF switched THEN now ELSE segStart
        /\ segRemaining' = IF switched THEN (IF turn1 THEN white1 ELSE black1)
                                ELSE segRemaining
        /\ bounced' = \/ (switched /\ isWhiteTurn /\ ~rearmed.W)
                       \/ (switched /\ ~isWhiteTurn /\ ~rearmed.B)
        /\ rearmed' = [W |-> IF isRunning /\ isWhiteTurn
                             THEN ArmedAfter(w, millis' - now)
                             ELSE ArmedAt(rearmed.W, millis' - now),
                       B |-> IF isRunning /\ ~isWhiteTurn
                             THEN ArmedAfter(b, millis' - now)
                             ELSE ArmedAt(rearmed.B, millis' - now),
                       C |-> ArmedAt(rearmed.C, millis' - now)]
        /\ repeated' = (isRunning /\ now = lastUpdateTime)
        /\ UNCHANGED <<currentTimeOption, isSetup, wasSetup,
                       hasOneMinuteWarning, hasThirtySecondWarning,
                       lastFinalSecondBeep, restarted, runStart,
                       oneMinuteBeeps, thirtySecondBeeps, finalBeeps,
                       finalRepeat>>

\* loop() after handleGame() returned normally: the warning block and
\* wasSetup = isSetup.
Warnings ==
    LET now == millis
        t == ActiveTime
        one == isRunning /\ OneMinuteDue(t, hasOneMinuteWarning)
        thirty == isRunning /\ ThirtySecondsDue(t, hasThirtySecondWarning)
        final == IF isRunning THEN FinalBeeps(t, now, lastFinalSecondBeep)
                 ELSE <<lastFinalSecondBeep, 0>>
    IN  /\ pc = "warn"
        /\ hasOneMinuteWarning' = (hasOneMinuteWarning \/ one)
        /\ hasThirtySecondWarning' = (hasThirtySecondWarning \/ thirty)
        /\ lastFinalSecondBeep' = final[1]
        /\ wasSetup' = isSetup
        /\ pc' = "loop"
        /\ confirmed' = FALSE
        /\ oneMinuteBeeps' = IF one THEN oneMinuteBeeps + 1 ELSE oneMinuteBeeps
        /\ thirtySecondBeeps' = IF thirty THEN thirtySecondBeeps + 1
                                ELSE thirtySecondBeeps
        /\ finalBeeps' = IF final[2] > 0 THEN finalBeeps \cup {SecondsLeft(t)}
                         ELSE finalBeeps
        /\ finalRepeat' = (finalRepeat \/ final[2] > 1
                           \/ (final[2] > 0 /\ SecondsLeft(t) \in finalBeeps))
        /\ UNCHANGED <<currentTimeOption, blackTime, whiteTime, lastUpdateTime,
                       isWhiteTurn, isRunning, isSetup, lastTurn, wLed, bLed,
                       lcdWinner, millis, controlButton,
                       restarted, runStart, segStart, segRemaining, presses,
                       rearmed>>
        /\ wButton' = FALSE
        /\ bButton' = FALSE
        /\ bounced' = FALSE
        /\ repeated' = FALSE

\* gameOver() from its wait loop on, and the return through handleGame()
\* and loop() (isRunning is false, so the warning block is skipped).
\* polls: how many times the loop finds CONTROL_BUTTON HIGH before it is LOW.
GameOverWait(polls) ==
    LET now == millis + polls * POLL_MS
    IN  /\ pc = "gameOver"
        /\ now <= MaxMillis
        /\ controlButton' = TRUE
        /\ wButton' = FALSE
        /\ bButton' = FALSE
        /\ millis' = now
        /\ isSetup' = TRUE
        /\ blackTime' = ResetClock(currentTimeOption)
        /\ whiteTime' = ResetClock(currentTimeOption)
        /\ lastUpdateTime' = now
        /\ wasSetup' = TRUE
        /\ pc' = "loop"
        /\ confirmed' = FALSE
        /\ restarted' = TRUE
        /\ bounced' = ~(polls > 0 \/ rearmed.C)
        /\ rearmed' = [B |-> ArmedAt(rearmed.B, now - millis),
                       W |-> ArmedAt(rearmed.W, now - millis),
                       C |-> ArmedAfter(TRUE, millis' - now)]
        /\ repeated' = FALSE
        /\ UNCHANGED <<currentTimeOption, isWhiteTurn, isRunning,
                       hasOneMinuteWarning, hasThirtySecondWarning,
                       lastFinalSecondBeep, lastTurn, wLed, bLed, lcdWinner,
                       runStart, segStart, segRemaining,
                       oneMinuteBeeps, thirtySecondBeeps, finalBeeps,
                       finalRepeat, presses>>

Next ==
    \/ \E d \in Steps, b, w, c \in BOOLEAN : LoopSetup(d, b, w, c)
    \/ \E d \in Steps, c \in BOOLEAN : GameControl(d, c)
    \/ \E w, b \in BOOLEAN : GameAdvance(w, b)
    \/ Warnings
    \/ \E polls \in {0, MaxPolls} : GameOverWait(polls)

Spec == Init /\ [][Next]_vars

\* A pass of loop() in game mode that finds CONTROL_BUTTON HIGH and observes a
\* strictly later millis() than the pass before it.
TimePass == \E d \in Steps \ {0} : GameControl(d, FALSE)

\* loop() is called again and again, so every started pass is finished, and
\* the hardware counter keeps counting: passes that see a later timestamp
\* recur as long as they are possible.
LiveSpec ==
    /\ Init
    /\ [][Next]_vars
    /\ WF_vars(\E w, b \in BOOLEAN : GameAdvance(w, b))
    /\ WF_vars(Warnings)
    /\ SF_vars(TimePass)

TypeOK ==
    /\ currentTimeOption \in 0 .. (NUM_OPTIONS - 1)
    /\ lastUpdateTime <= millis
    /\ lastFinalSecondBeep <= millis
    /\ pc \in {"loop", "advance", "warn", "gameOver"}

\* ------------------------------------------------------------- properties
Full == ResetClock(currentTimeOption)
Max0(x) == IF x < 0 THEN 0 ELSE x
Min(a, b) == IF a < b THEN a ELSE b

\* The button of the player to move / of the waiting player is held during
\* the step, and the other one is not.
ActiveOnly == IF isWhiteTurn THEN wButton' /\ ~bButton' ELSE bButton' /\ ~wButton'
WaitingOnly == IF isWhiteTurn THEN bButton' /\ ~wButton' ELSE wButton' /\ ~bButton'
RunningAdvance == pc = "advance" /\ isRunning

\* C1 as stated: while running, a press of the active player's button leaves
\* isWhiteTurn unchanged and a press of the non-active player's button flips it.
C1_ActivePressIsNoOp ==
    [][RunningAdvance =>
          /\ (ActiveOnly => isWhiteTurn' = isWhiteTurn)
          /\ (WaitingOnly => isWhiteTurn' # isWhiteTurn)]_vars

\* C1 amended: while running, a press of the active player's button flips
\* isWhiteTurn (white to black and black to white) and a press of the
\* non-active player's button leaves it unchanged.
C1_ActivePressSwitches ==
    [][RunningAdvance =>
          /\ (ActiveOnly => isWhiteTurn' # isWhiteTurn)
          /\ (WaitingOnly => isWhiteTurn' = isWhiteTurn)]_vars

\* White, to move, pressed W_BUTTON and the turn went to Black.
C1_Witness ==
    /\ pc = "warn" /\ isRunning
    /\ ~isWhiteTurn /\ wButton /\ ~bButton
    /\ millis = lastUpdateTime + DEBOUNCE_MS

\* C2: a step of handleGame() changes at most the clock of the player that
\* isWhiteTurn designates when the step starts, and during a game the clock
\* of the player who is not to move never decreases.
C2_OnlyActiveClockDebited ==
    [][/\ pc = "advance" =>
             IF isWhiteTurn THEN blackTime' = blackTime
                            ELSE whiteTime' = whiteTime
       /\ ~isSetup =>
             /\ isWhiteTurn => blackTime' >= blackTime
             /\ ~isWhiteTurn => whiteTime' >= whiteTime]_vars

\* Both clocks have been debited in turn and the game goes on.
C2_Witness ==
    /\ ~isSetup /\ isRunning
    /\ whiteTime < Full /\ blackTime < Full
    /\ whiteTime # blackTime

\* C3: a step that starts with the engine not running leaves both clocks as
\* they are (or sets both to the selected option when it enters or leaves
\* setup), and the first debit after a start covers exactly the time since
\* that start.
C3_IdleTimeNotDebited ==
    [][/\ (~isRunning /\ isSetup' = isSetup) =>
             (whiteTime' = whiteTime /\ blackTime' = blackTime)
       /\ (~isRunning /\ isSetup' # isSetup) =>
             (whiteTime' = ResetClock(currentTimeOption')
              /\ blackTime' = ResetClock(currentTimeOption'))
       /\ (RunningAdvance /\ controlButton) =>
             IF isWhiteTurn
             THEN whiteTime' = Max0(whiteTime - (millis - runStart))
             ELSE blackTime' = Max0(blackTime - (millis - runStart))]_vars

\* The clock was started, paused and started again; at least one long
\* stretch passed in setup or pause, and White lost the two debounce delays.
C3_Witness ==
    /\ pc = "warn" /\ isRunning
    /\ lastUpdateTime = runStart + DEBOUNCE_MS
    /\ whiteTime = Full - 2 * DEBOUNCE_MS /\ blackTime = Full
    /\ millis >= SETUP_DELAY_MS + LongStep

InRange(t) == 0 <= t /\ t <= Full

\* C4 as stated: in every reachable state each clock lies in
\* 0 .. selected duration * 1000.
C4_ClocksInRangeAlways == InRange(whiteTime) /\ InRange(blackTime)

\* C4 amended: the debit is max(0, remaining - elapsed); in every reachable
\* state outside setup each clock lies in 0 .. selected duration * 1000, and
\* no clock increases from one game state to the next.
C4_ClampedDebit ==
    [][/\ ~isSetup' => (InRange(whiteTime) /\ InRange(blackTime))'
       /\ RunningAdvance =>
             IF isWhiteTurn
             THEN whiteTime' = Max0(whiteTime - (millis - lastUpdateTime))
             ELSE blackTime' = Max0(blackTime - (millis - lastUpdateTime))
       /\ (~isSetup /\ ~isSetup') =>
             (whiteTime' <= whiteTime /\ blackTime' <= blackTime)]_vars

\* A debit larger than the remaining time was clamped to 0.
C4_Witness ==
    /\ pc = "gameOver"
    /\ ActiveTime = 0
    /\ lastUpdateTime - segStart > segRemaining

\* C5: gameOver() is entered exactly when a clock is 0, and the message
\* names the player whose clock is not 0.
C5_ZeroClockLoses ==
    /\ (pc = "gameOver") <=> (whiteTime = 0 \/ blackTime = 0)
    /\ pc = "gameOver" =>
          /\ whiteTime = 0 => (lcdWinner = "Black" /\ blackTime > 0)
          /\ blackTime = 0 => (lcdWinner = "White" /\ whiteTime > 0)

\* White ran out and pressed W_BUTTON in the same pass: the turn is already
\* Black's, and Black is announced.
C5_Witness ==
    /\ pc = "gameOver" /\ whiteTime = 0
    /\ ~isWhiteTurn /\ wButton
    /\ lcdWinner = "Black"

\* C6: while the clock runs and the turn stays, the active clock has lost
\* min(remaining at the start of the stretch, time since then), whatever
\* the number of passes.
C6_DebitEqualsElapsed ==
    (~isSetup /\ (isRunning \/ pc = "gameOver")) =>
        ActiveTime = segRemaining - Min(segRemaining, lastUpdateTime - segStart)

\* A stretch of at least three passes with time between them.
C6_Witness ==
    /\ isRunning /\ ActiveTime > 0
    /\ lastUpdateTime - segStart > 2 * LongStep

\* C7: between two confirms each warning beep plays at most once, and a
\* step that changes the turn leaves both one-shot flags as they are.
C7_WarningsOncePerGame ==
    [][/\ oneMinuteBeeps' <= 1
       /\ thirtySecondBeeps' <= 1
       /\ isWhiteTurn' # isWhiteTurn =>
             /\ hasOneMinuteWarning' = hasOneMinuteWarning
             /\ hasThirtySecondWarning' = hasThirtySecondWarning]_vars

\* Both players are under a minute, the turn has changed, one beep so far.
C7_Witness ==
    /\ pc = "loop" /\ isRunning
    /\ whiteTime <= ONE_MINUTE_MS /\ blackTime <= ONE_MINUTE_MS
    /\ oneMinuteBeeps = 1

\* C8: within one game the final beep plays at most once for each whole
\* second ceil(remaining / 1000) of the player to move.
C8_FinalBeepOncePerSecond == ~finalRepeat

\* C9: right after the confirm both clocks are the selected option in
\* milliseconds.
C9_ConfirmSetsClocks ==
    confirmed =>
        /\ whiteTime = TIME_OPTIONS[currentTimeOption + 1] * 1000
        /\ blackTime = TIME_OPTIONS[currentTimeOption + 1] * 1000

\* The 60-minute option was confirmed.
C9_Witness ==
    /\ confirmed /\ ~isSetup
    /\ currentTimeOption = 3
    /\ whiteTime = 3600000 /\ blackTime = 3600000

\* C10: the restart wait ends in setup mode, and a confirm made after a
\* restart starts the game with full clocks and cleared warning statics.
C10_RestartGivesFreshGame ==
    [][/\ pc = "gameOver" => (isSetup' /\ ~isRunning' /\ pc' = "loop")
       /\ (restarted' /\ confirmed') =>
             /\ whiteTime' = TIME_OPTIONS[currentTimeOption' + 1] * 1000
             /\ blackTime' = whiteTime'
             /\ ~hasOneMinuteWarning' /\ ~hasThirtySecondWarning'
             /\ lastFinalSecondBeep' = 0]_vars

\* In a game played after a restart the one-minute warning has played again.
C10_Witness ==
    /\ restarted /\ ~isSetup /\ isRunning
    /\ oneMinuteBeeps = 1 /\ hasOneMinuteWarning

ClocksUnchanged == whiteTime' = whiteTime /\ blackTime' = blackTime

\* C11: setup mode and the state right after the confirm are never running;
\* during a game a clock changes only in a step that starts running, and
\* running starts only in the control-button block of handleGame().
C11_ConfirmLeavesPaused ==
    [][/\ isSetup' => ~isRunning'
       /\ confirmed' => (~isRunning' /\ ~isSetup')
       /\ (~isSetup /\ ~isSetup' /\ ~ClocksUnchanged) => isRunning
       /\ (~isRunning /\ isRunning') => (pc = "loop" /\ ~isSetup /\ controlButton')]_vars

\* A confirmed game has waited a long stretch without a start: both clocks
\* are still full.
C11_Witness ==
    /\ pc = "loop" /\ ~isSetup /\ ~isRunning
    /\ whiteTime = Full /\ blackTime = Full
    /\ millis >= lastUpdateTime + LongStep

\* C12: player buttons change neither the turn nor a clock while paused,
\* never change the option index during a game, and in setup mode never
\* change the turn or start the clock.
C12_InertOutsideMode ==
    [][/\ (pc = "advance" /\ ~isRunning) =>
             (isWhiteTurn' = isWhiteTurn /\ ClocksUnchanged)
       /\ ~isSetup => currentTimeOption' = currentTimeOption
       /\ isSetup => (isWhiteTurn' = isWhiteTurn /\ ~isRunning')]_vars

\* Paused with White to move: W_BUTTON was held during the pass and the turn
\* is still White's.
C12_Witness ==
    /\ pc = "warn" /\ ~isSetup /\ ~isRunning
    /\ isWhiteTurn /\ wButton

\* C13: every accepted press of a line comes after the line was read HIGH
\* or after the refractory interval since the previous accepted press of
\* that line.
C13_OncePerDepression == ~bounced

\* C14: the option index stays in 0 .. NUM_OPTIONS-1, moves only in setup
\* mode, by one step with wraparound per button, and a setup pass without
\* a confirm leaves both clocks as they are.
C14_OptionWraps ==
    [][/\ currentTimeOption' \in 0 .. (NUM_OPTIONS - 1)
       /\ ~isSetup => currentTimeOption' = currentTimeOption
       /\ isSetup =>
             /\ (bButton' /\ ~wButton') =>
                   currentTimeOption' =
                       IF currentTimeOption = NUM_OPTIONS - 1 THEN 0
                       ELSE currentTimeOption + 1
             /\ (wButton' /\ ~bButton') =>
                   currentTimeOption' =
                       IF currentTimeOption = 0 THEN NUM_OPTIONS - 1
                       ELSE currentTimeOption - 1
             /\ (bButton' <=> wButton') =>
                   currentTimeOption' = currentTimeOption
       /\ (isSetup /\ isSetup') => ClocksUnchanged]_vars

\* B_BUTTON moved the index from the last option to the first; the clocks
\* still hold the power-on value.
C14_Witness ==
    /\ isSetup /\ bButton /\ ~wButton /\ ~controlButton
    /\ currentTimeOption = 0
    /\ whiteTime # Full /\ blackTime # Full

\* C15: a running debit made at the timestamp of the previous one changes
\* no clock, nor lastUpdateTime, nor the mode, nor (without a player press)
\* the turn.
C15_SameNowIdempotent ==
    [][(RunningAdvance /\ millis = lastUpdateTime) =>
          /\ ClocksUnchanged
          /\ lastUpdateTime' = lastUpdateTime
          /\ isRunning' = isRunning /\ isSetup' = isSetup
          /\ (~wButton' /\ ~bButton') => isWhiteTurn' = isWhiteTurn]_vars

\* The second debit at the same timestamp has been made.
C15_Witness ==
    /\ pc = "warn" /\ repeated /\ isRunning
    /\ ~wButton /\ ~bButton
    /\ millis = lastUpdateTime

\* C16: right after every confirm it is White's turn.
C16_WhiteStartsEveryGame == confirmed => isWhiteTurn

\* C17: at the end of every pass made in a game exactly the LED of the
\* player to move is lit, and both LEDs are off only during the restart wait.
C17_LedShowsTurn ==
    /\ (pc = "loop" /\ ~isSetup) => (wLed = isWhiteTurn /\ bLed = ~isWhiteTurn)
    /\ (~wLed /\ ~bLed) => pc = "gameOver"

\* C18: the two clocks are never 0 together; the game ends with exactly one
\* of them at 0.
C18_NeverBothZero ==
    /\ ~(whiteTime = 0 /\ blackTime = 0)
    /\ pc = "gameOver" => ((whiteTime = 0) # (blackTime = 0))

\* Black ran out while White still has time.
C18_Witness ==
    /\ pc = "gameOver"
    /\ blackTime = 0 /\ whiteTime > 0
    /\ lcdWinner = "White"

\* The horizon leaves room for both clocks to run out: while the clock runs
\* and CONTROL_BUTTON stays HIGH, lastUpdateTime + whiteTime + blackTime
\* does not change, and millis is at most one debounce delay ahead of
\* lastUpdateTime at the top of a pass.
CanFinish ==
    lastUpdateTime + whiteTime + blackTime + LongStep + DEBOUNCE_MS <= MaxMillis

\* C19: a running clock leads to the Game Over screen unless the control
\* button pauses it first, whatever turn switches happen in between
\* (checked for the runs that fit below the horizon).
C19_RunningReachesGameOver ==
    (isRunning /\ CanFinish) ~>
        (pc = "gameOver" \/ (~isRunning /\ controlButton))

\* White ran out after Black had used a good part of its time, in a game
\* that fitted below the horizon.
C19_Witness ==
    /\ pc = "gameOver" /\ CanFinish
    /\ whiteTime = 0
    /\ blackTime < Full - LongStep

====
